---------------------------- MODULE Spec2Model ----------------------------
(***************************************************************************)
(* Model of HybridRAGService (src/hybrid_rag_service.py): the relational   *)
(* store (documents, document_versions, vector_embeddings), the upload     *)
(* pipeline, the duplicate/version resolver, the user dispositions and the *)
(* functional chunker.                                                     *)
(*                                                                         *)
(* Strings are modelled as sequences of segments.  A segment is a run of   *)
(* characters [k, s, n]: its kind k ("lit" for literal characters written  *)
(* by the code, "title" for a title text, "item" for the text of a content *)
(* item), a label s that identifies the run, and its length n in            *)
(* characters.  len() of a string is the sum of the segment lengths and    *)
(* "\n".join() puts a one-character newline segment between the parts.     *)
(***************************************************************************)
EXTENDS Integers, Sequences, FiniteSets, TLC

VARIABLES documents, document_versions, vector_embeddings,
          doc_uuid, uuid_pool, ver_uuid, last, emitted, faults, chunk_in,
          chunk_out, procs, seen, query

vars == <<documents, document_versions, vector_embeddings,
          doc_uuid, uuid_pool, ver_uuid, last, emitted, faults, chunk_in,
          chunk_out, procs, seen, query>>

\* Python None for an Optional[int] (page numbers are positive)
NoPage == 0

(***************************************************************************)
(* Strings                                                                 *)
(***************************************************************************)
Seg(k, s, n) == [k |-> k, s |-> s, n |-> n]

Lit(s, n) == <<Seg("lit", s, n)>>

NL == Lit("\n", 1)

RECURSIVE StrLen(_)
StrLen(str) ==
  IF str = <<>> THEN 0 ELSE Head(str).n + StrLen(Tail(str))

\* "\n".join(parts)
RECURSIVE JoinNL(_)
JoinNL(parts) ==
  IF parts = <<>> THEN <<>>
  ELSE IF Len(parts) = 1 THEN parts[1]
  ELSE parts[1] \o NL \o JoinNL(Tail(parts))

\* Python None for an Optional[str]
NoneStr == <<Seg("none", "None", 0)>>

\* Python truthiness of an Optional[str]: None and "" are falsy
Truthy(str) == str # NoneStr /\ StrLen(str) > 0

IsPrefix(p, str) == Len(p) <= Len(str) /\ SubSeq(str, 1, Len(p)) = p

\* number of content-item segments in a string
NumItems(str) == Cardinality({i \in 1..Len(str) : str[i].k = "item"})

(***************************************************************************)
(* Functional chunker: _create_chunk                                       *)
(***************************************************************************)
SizeBudget == 8000

\* f"# {section}" and f"## {subsection}"
SectionLine(section) == Lit("# ", 2) \o section

SubsectionLine(subsection) == Lit("## ", 3) \o subsection

\* the header leaves the subsection line out
HeaderBaseSectionOnly(section, subsection) == <<SectionLine(section)>>

\* header_base: ["# section"] plus ["## subsection"] if subsection
HeaderBase(section, subsection) ==
  IF Truthy(subsection)
  THEN <<SectionLine(section), SubsectionLine(subsection)>>
  ELSE <<SectionLine(section)>>

\* the part appended for one content item
ItemPart(item) ==
  IF item.type = "table"
    THEN NL \o Lit("[TABLE]", 7) \o NL \o item.text \o NL
  ELSE IF item.type = "image"
    THEN NL \o item.text \o NL
  ELSE item.text

\* the part of the last content item is left out
ItemPartsDropLast(content) ==
  [k \in 1..(Len(content) - 1) |-> ItemPart(content[k])]

RECURSIVE ItemParts(_)
ItemParts(content) ==
  IF content = <<>> THEN <<>>
  ELSE <<ItemPart(Head(content))>> \o ItemParts(Tail(content))

\* parts = header lines, "", then one part per content item
ChunkParts(content, section, subsection) ==
  HeaderBase(section, subsection) \o << <<>> >> \o ItemParts(content)

\* chunk_type after the loop over all items of the group
RECURSIVE ChunkTypeLoop(_, _)
ChunkTypeLoop(content, chunk_type) ==
  IF content = <<>> THEN chunk_type
  ELSE LET item == Head(content)
           t == IF item.type = "table" THEN "table"
                ELSE IF item.type = "image"
                  THEN (IF chunk_type = "text" THEN "image" ELSE chunk_type)
                ELSE chunk_type
       IN ChunkTypeLoop(Tail(content), t)

ChunkType(content) == ChunkTypeLoop(content, "text")

MkChunk(current, section, subsection, page, chunk_type) ==
  [text |-> JoinNL(current), section |-> section, subsection |-> subsection,
   page |-> page, type |-> chunk_type]

\* length added to current_len when a part is appended
AppendLen(part) == StrLen(part)

\* the for loop "for part in parts[len(header_base):]" and the final flush
RECURSIVE SplitLoop(_, _, _, _, _, _, _, _)
SplitLoop(rest, current, current_len, sub_chunks, hb, section, subsection, meta) ==
  IF rest = <<>>
  THEN IF Len(current) > 0
       THEN Append(sub_chunks,
                   MkChunk(current, section, subsection, meta.page, meta.type))
       ELSE sub_chunks
  ELSE LET part == Head(rest)
           part_len == StrLen(part)
           flush == current_len + part_len > SizeBudget /\ Len(current) > 0
           sc == IF flush
                 THEN Append(sub_chunks,
                        MkChunk(current, section, subsection, meta.page, meta.type))
                 ELSE sub_chunks
           cur == IF flush THEN hb ELSE current
           cl == IF flush THEN StrLen(JoinNL(hb)) ELSE current_len
       IN SplitLoop(Tail(rest), Append(cur, part), cl + AppendLen(part),
                    sc, hb, section, subsection, meta)

\* _create_chunk: the sequence of chunks made from one content group
\* (<<>> for None, one chunk for a dict, the sub-chunks for a list)
CreateChunk(content, section, subsection, page) ==
  IF content = <<>> THEN <<>>
  ELSE LET parts == ChunkParts(content, section, subsection)
           chunk_type == ChunkType(content)
           chunk_text == JoinNL(parts)
           hb == HeaderBase(section, subsection)
       IN IF StrLen(chunk_text) > SizeBudget
          THEN SplitLoop(SubSeq(parts, Len(hb) + 1, Len(parts)), hb,
                         StrLen(JoinNL(hb)), <<>>, hb, section, subsection,
                         [page |-> page, type |-> chunk_type])
          ELSE <<[text |-> chunk_text, section |-> section,
                  subsection |-> subsection, page |-> page,
                  type |-> chunk_type]>>

(***************************************************************************)
(* Hierarchy builder: _build_document_hierarchy                            *)
(***************************************************************************)
ContentItem(element) ==
  [type |-> IF element.type = "Table" THEN "table"
            ELSE IF element.type = "Image" THEN "image" ELSE "text",
   text |-> element.text, page |-> element.page]

\* one iteration of the loop: st = [hierarchy, current_section,
\* current_subsection]; the pointers are indices, 0 for None
HierarchyStep(st, element) ==
  LET h == st.hierarchy
      cs == st.current_section
      css == st.current_subsection
  IN IF element.type = "Title"
     THEN IF element.level = 1
          THEN [hierarchy |->
                  [h EXCEPT !.sections = Append(@,
                     [title |-> element.text, level |-> 1,
                      page |-> element.page, subsections |-> <<>>,
                      content |-> <<>>])],
                current_section |-> Len(h.sections) + 1,
                current_subsection |-> 0]
          ELSE IF element.level = 2 /\ cs # 0
          THEN [hierarchy |->
                  [h EXCEPT !.sections[cs].subsections = Append(@,
                     [title |-> element.text, level |-> 2,
                      page |-> element.page, content |-> <<>>])],
                current_section |-> cs,
                current_subsection |-> Len(h.sections[cs].subsections) + 1]
          ELSE st
     ELSE LET item == ContentItem(element)
          IN IF css # 0
             THEN [st EXCEPT !.hierarchy.sections[cs].subsections[css].content
                               = Append(@, item)]
             ELSE IF cs # 0
             THEN [st EXCEPT !.hierarchy.sections[cs].content = Append(@, item)]
             ELSE [st EXCEPT !.hierarchy.content = Append(@, item)]

\* for element in elements (the test of st.current_section, which is never
\* negative, makes the evaluation of the loop state strict)
RECURSIVE HierarchyLoop(_, _)
HierarchyLoop(st, elements) ==
  IF elements = <<>> \/ st.current_section < 0 THEN st
  ELSE HierarchyLoop(HierarchyStep(st, Head(elements)), Tail(elements))

\* the last element is not read
BuildDocumentHierarchyDropLast(elements) ==
  HierarchyLoop([hierarchy |-> [sections |-> <<>>, content |-> <<>>],
                 current_section |-> 0, current_subsection |-> 0],
                SubSeq(elements, 1, Len(elements) - 1)).hierarchy

BuildDocumentHierarchy(elements) ==
  HierarchyLoop([hierarchy |-> [sections |-> <<>>, content |-> <<>>],
                 current_section |-> 0, current_subsection |-> 0],
                elements).hierarchy

(***************************************************************************)
(* Functional chunker: _chunk_by_function                                  *)
(***************************************************************************)
RECURSIVE SubsectionChunks(_, _)
SubsectionChunks(subsections, section_title) ==
  IF subsections = <<>> THEN <<>>
  ELSE LET subsection == Head(subsections)
       IN CreateChunk(subsection.content, section_title, subsection.title,
                      subsection.page)
          \o SubsectionChunks(Tail(subsections), section_title)

\* the chunks one section adds: its subsections, then its own content
SectionChunks(section) ==
  SubsectionChunks(section.subsections, section.title)
  \o (IF section.content # <<>>
      THEN CreateChunk(section.content, section.title, NoneStr, section.page)
      ELSE <<>>)

RECURSIVE SectionsChunks(_)
SectionsChunks(sections) ==
  IF sections = <<>> THEN <<>>
  ELSE SectionChunks(Head(sections)) \o SectionsChunks(Tail(sections))

IntroductionTitle == <<Seg("title", "Introduction", 12)>>

\* the Introduction chunks are appended after the chunks of the sections
ChunkByFunctionIntroLast(hierarchy) ==
  SectionsChunks(hierarchy.sections)
  \o (IF hierarchy.content # <<>>
      THEN CreateChunk(hierarchy.content, IntroductionTitle, NoneStr, NoPage)
      ELSE <<>>)

\* the Introduction chunks are inserted at index 0, in their own order
ChunkByFunction(hierarchy) ==
  (IF hierarchy.content # <<>>
   THEN CreateChunk(hierarchy.content, IntroductionTitle, NoneStr, NoPage)
   ELSE <<>>)
  \o SectionsChunks(hierarchy.sections)

(***************************************************************************)
(* Content hasher: _compute_content_hash                                   *)
(* A text to hash is a sequence of one-character strings.  SHA-256 is      *)
(* taken to be injective: the digest is identified with the normalized     *)
(* text it is computed from.                                               *)
(***************************************************************************)
Whitespace == {" ", "\t", "\n"}

\* str.lower() on one character
LowerChar(c) ==
  CASE c = "A" -> "a"
    [] c = "B" -> "b"
    [] c = "C" -> "c"
    [] c = "D" -> "d"
    [] c = "G" -> "g"
    [] c = "I" -> "i"
    [] c = "L" -> "l"
    [] c = "O" -> "o"
    [] c = "S" -> "s"
    [] OTHER -> c

\* the text is hashed in the case it is written in
LowerIdentity(text) == text

\* str.lower()
Lower(text) == [i \in 1..Len(text) |-> LowerChar(text[i])]

\* str.split(): the maximal runs of non-whitespace characters
RECURSIVE SplitWords(_, _, _)
SplitWords(text, word, words) ==
  IF text = <<>>
  THEN IF word = <<>> THEN words ELSE Append(words, word)
  ELSE IF Head(text) \in Whitespace
  THEN SplitWords(Tail(text), <<>>,
                  IF word = <<>> THEN words ELSE Append(words, word))
  ELSE SplitWords(Tail(text), Append(word, Head(text)), words)

\* " ".join(words)
RECURSIVE JoinSpace(_)
JoinSpace(words) ==
  IF words = <<>> THEN <<>>
  ELSE IF Len(words) = 1 THEN words[1]
  ELSE words[1] \o <<" ">> \o JoinSpace(Tail(words))

Normalize(text) == JoinSpace(SplitWords(Lower(text), <<>>, <<>>))

ComputeContentHash(text) == Normalize(text)

(***************************************************************************)
(* Inputs: uploaded contents, filenames, owners                            *)
(***************************************************************************)
MaxDocs == 2
MaxVersions == 2
MaxFaults == 1

Contents == 1..4
Filenames == {"a.pdf", "b.pdf"}
Users == {"u1", "u2"}

\* the (file content, filename, user_id) arguments callers send
Requests ==
  {<<1, "a.pdf", "u1">>, <<2, "b.pdf", "u1">>, <<3, "b.pdf", "u1">>,
   <<1, "a.pdf", "u2">>}

Title(s, n, level, page) ==
  [type |-> "Title", text |-> <<Seg("title", s, n)>>, level |-> level,
   page |-> page]

Element(type, s, n, page) ==
  [type |-> type, text |-> <<Seg("item", s, n)>>, level |-> 0, page |-> page]

\* n sections "S" with one text item of 10 characters each
RECURSIVE FlatSections(_)
FlatSections(n) ==
  IF n = 0 THEN <<>>
  ELSE FlatSections(n - 1) \o <<Title("S", 1, 1, n), Element("Text", ToString(n), 10, n)>>

\* what the extraction service returns for each uploaded content: contents 1
\* and 2 differ in the case and the whitespace of their text only; content 3
\* has introduction content, a level-2 title outside any section, a table,
\* an image, a group that is split, and more chunks than one embedding batch;
\* content 4 has a table under one section and a text under another
ExtractionResult(c) ==
  CASE c = 1 ->
         [full_text |-> <<"A", "b", " ", "c">>, total_pages |-> 1,
          elements |-> <<Title("Login", 5, 1, 1),
                         Title("Password Reset", 14, 2, 1),
                         Element("Text", "t1", 40, 1)>>]
    [] c = 2 ->
         [full_text |-> <<" ", "a", "B", "\t", "\n", "C", " ">>,
          total_pages |-> 1,
          elements |-> <<Title("Login", 5, 1, 1),
                         Title("Password Reset", 14, 2, 1),
                         Element("Text", "t1", 40, 1)>>]
    [] c = 4 ->
         [full_text |-> <<"c", " ", "a">>, total_pages |-> 2,
          elements |-> <<Title("Billing", 7, 1, 1),
                         Element("Table", "t5", 20, 1),
                         Title("Login", 5, 1, 2),
                         Element("Text", "t6", 400, 2)>>]
    [] OTHER ->
         [full_text |-> <<"b", "c">>, total_pages |-> 51,
          elements |-> <<Element("Text", "t1", 30, 1),
                         Title("Orphan", 6, 2, 1),
                         Title("Data", 4, 1, 2),
                         Element("Table", "t2", 5000, 2),
                         Element("Image", "t3", 4000, 2),
                         Title("Notes", 5, 2, 3),
                         Element("Text", "t4", 100, 3)>>
                       \o FlatSections(51)]

\* extracted_data of each content, computed once
ExtractionTable ==
  <<ExtractionResult(1), ExtractionResult(2), ExtractionResult(3),
    ExtractionResult(4)>>

ExtractedData(c) == ExtractionTable[c]

\* content_hash of each content (step 2 of upload_document), computed once
HashTable ==
  <<ComputeContentHash(ExtractionResult(1).full_text),
    ComputeContentHash(ExtractionResult(2).full_text),
    ComputeContentHash(ExtractionResult(3).full_text),
    ComputeContentHash(ExtractionResult(4).full_text)>>

HashOf(content) == HashTable[content]

(***************************************************************************)
(* Duplicate and version resolver: _check_duplicate_or_version             *)
(***************************************************************************)
NotDuplicate ==
  [is_duplicate |-> FALSE, duplicate_type |-> "none", existing |-> 0,
   existing_version |-> 0, suggested_action |-> "none"]

\* the hash query without the status filter
ExactRowsAnyStatus(docs, content_hash, user_id) ==
  {i \in 1..Len(docs) : /\ docs[i].content_hash = content_hash
                        /\ docs[i].user_id = user_id}

\* WHERE content_hash = :hash AND user_id = :user_id AND status = 'active'
ExactRows(docs, content_hash, user_id) ==
  {i \in 1..Len(docs) : /\ docs[i].content_hash = content_hash
                        /\ docs[i].user_id = user_id
                        /\ docs[i].status = "active"}

\* WHERE filename = :filename AND user_id = :user_id AND status = 'active'
FilenameRows(docs, filename, user_id) ==
  {i \in 1..Len(docs) : /\ docs[i].filename = filename
                        /\ docs[i].user_id = user_id
                        /\ docs[i].status = "active"}

\* ORDER BY version DESC LIMIT 1: the rows a LIMIT 1 may pick
TopVersionRows(docs, rows) ==
  {i \in rows : \A j \in rows : docs[j].version <= docs[i].version}

\* the check skips the hash query
CheckFilenameOnly(docs, content_hash, filename, user_id) ==
  LET same == FilenameRows(docs, filename, user_id)
  IN IF same # {}
     THEN {[is_duplicate |-> TRUE, duplicate_type |-> "filename",
            existing |-> docs[i].id, existing_version |-> docs[i].version,
            suggested_action |-> "new_version"] :
              i \in TopVersionRows(docs, same)}
     ELSE {NotDuplicate}

\* the check never finds a row
CheckNeverDuplicate(docs, content_hash, filename, user_id) == {NotDuplicate}

\* the set of values the check may return (LIMIT 1 picks any matching row)
CheckDuplicateOrVersion(docs, content_hash, filename, user_id) ==
  LET exact == ExactRows(docs, content_hash, user_id)
      same == FilenameRows(docs, filename, user_id)
  IN IF exact # {}
     THEN {[is_duplicate |-> TRUE, duplicate_type |-> "exact",
            existing |-> docs[i].id, existing_version |-> docs[i].version,
            suggested_action |-> "none"] : i \in exact}
     ELSE IF same # {}
     THEN {[is_duplicate |-> TRUE, duplicate_type |-> "filename",
            existing |-> docs[i].id, existing_version |-> docs[i].version,
            suggested_action |-> "new_version"] :
              i \in TopVersionRows(docs, same)}
     ELSE {NotDuplicate}

(***************************************************************************)
(* Embedding and storage: _embed_and_store_chunks                          *)
(* The embedding service keeps its contract: one vector per text, in       *)
(* order, so zip(batch, embeddings) pairs every chunk of the batch.        *)
(***************************************************************************)
BatchSize == 50

\* the index restarts in every batch
ChunkIdxPerBatch(i, j) == j

\* chunk_idx = i + j
ChunkIdx(i, j) == i + j

\* only the first chunk of the batch is stored
BatchRowsFirstOnly(flat_chunks, doc_id, i) ==
  <<[document_id |-> doc_id, chunk_index |-> ChunkIdx(i, 0),
     chunk_type |-> flat_chunks[i + 1].type,
     section_title |-> flat_chunks[i + 1].section,
     subsection_title |-> flat_chunks[i + 1].subsection,
     text_content |-> flat_chunks[i + 1].text,
     page_number |-> flat_chunks[i + 1].page]>>

\* the rows inserted for the batch flat_chunks[i:i + batch_size]
BatchRows(flat_chunks, doc_id, i) ==
  LET total == Len(flat_chunks)
      n == IF i + BatchSize <= total THEN BatchSize ELSE total - i
  IN [k \in 1..n |->
        LET chunk == flat_chunks[i + k]
        IN [document_id |-> doc_id, chunk_index |-> ChunkIdx(i, k - 1),
            chunk_type |-> chunk.type, section_title |-> chunk.section,
            subsection_title |-> chunk.subsection,
            text_content |-> chunk.text, page_number |-> chunk.page]]

NumBatches(flat_chunks) == (Len(flat_chunks) + BatchSize - 1) \div BatchSize

\* for i in range(0, total, batch_size): embed, insert, commit.  fail_batch
\* is the number of the batch whose embedding call exhausts its retries
\* (0: none); the batches before it are committed
RECURSIVE EmbedAndStoreChunks(_, _, _, _, _)
EmbedAndStoreChunks(embs, flat_chunks, doc_id, i, fail_batch) ==
  IF i >= Len(flat_chunks) THEN [vector_embeddings |-> embs, raised |-> FALSE]
  ELSE IF fail_batch = (i \div BatchSize) + 1
  THEN [vector_embeddings |-> embs, raised |-> TRUE]
  ELSE EmbedAndStoreChunks(embs \o BatchRows(flat_chunks, doc_id, i),
                           flat_chunks, doc_id, i + BatchSize, fail_batch)

(***************************************************************************)
(* upload_document                                                         *)
(***************************************************************************)
Options == <<"replace", "new_version", "keep_both", "cancel">>

\* the faults an upload can meet: "extract" (the extraction call raises),
\* "embed1", "embed2" (the embedding call of batch 1, 2 raises after its
\* retries), "summary" (the summary call raises); "none" otherwise
FailBatch(fault) ==
  CASE fault = "embed1" -> 1
    [] fault = "embed2" -> 2
    [] OTHER -> 0

\* steps 4 and 5 of upload_document for each content, computed once
ChunkTable ==
  <<ChunkByFunction(BuildDocumentHierarchy(ExtractedData(1).elements)),
    ChunkByFunction(BuildDocumentHierarchy(ExtractedData(2).elements)),
    ChunkByFunction(BuildDocumentHierarchy(ExtractedData(3).elements)),
    ChunkByFunction(BuildDocumentHierarchy(ExtractedData(4).elements))>>

Chunks(content) == ChunkTable[content]

\* "count": sum(1 for _ in (c for c in chunks)) and len(flat_for_summary)
ChunkCount(chunks) == Len(chunks)

NewDocument(doc_id, content, filename, user_id, chunks) ==
  [id |-> doc_id, filename |-> filename,
   content_hash |-> HashOf(content),
   chunk_count |-> ChunkCount(chunks),
   total_pages |-> ExtractedData(content).total_pages,
   user_id |-> user_id, version |-> 1, status |-> "active",
   parent_document_id |-> 0]

\* the outcome of upload_document on the store db = [documents,
\* vector_embeddings] when the duplicate check returns dup and uuid4()
\* returns doc_id: the store it leaves, what it returns or that it raised,
\* and the external services it called
UploadDocument(db, content, filename, user_id, dup, doc_id, fault) ==
  LET chunks == Chunks(content)
      stored == EmbedAndStoreChunks(db.vector_embeddings, chunks, doc_id, 0,
                                    FailBatch(fault))
      base == [documents |-> db.documents,
               vector_embeddings |-> db.vector_embeddings,
               status |-> "raised", document_id |-> 0, existing |-> 0,
               options |-> <<>>, chunk_count |-> 0,
               duplicate_type |-> "none", suggested_action |-> "none",
               calls |-> {"extraction"}, allocated |-> FALSE]
  IN IF fault = "extract" THEN base
     ELSE IF dup.is_duplicate
     THEN [base EXCEPT !.status = "duplicate", !.existing = dup.existing,
                       !.options = Options,
                       !.duplicate_type = dup.duplicate_type,
                       !.suggested_action = dup.suggested_action]
     ELSE IF stored.raised
     THEN [base EXCEPT !.vector_embeddings = stored.vector_embeddings,
                       !.calls = {"extraction", "embedding"},
                       !.allocated = TRUE]
     ELSE IF fault = "summary"
     THEN [base EXCEPT !.vector_embeddings = stored.vector_embeddings,
                       !.calls = {"extraction", "summary"} \cup
                                 (IF chunks = <<>> THEN {} ELSE {"embedding"}),
                       !.allocated = TRUE]
     ELSE [base EXCEPT !.vector_embeddings = stored.vector_embeddings,
                       !.documents = Append(db.documents,
                          NewDocument(doc_id, content, filename, user_id, chunks)),
                       !.status = "success", !.document_id = doc_id,
                       !.chunk_count = ChunkCount(chunks),
                       !.calls = {"extraction", "summary"} \cup
                                 (IF chunks = <<>> THEN {} ELSE {"embedding"}),
                       !.allocated = TRUE]

\* the faults that can occur on this run of upload_document
PossibleFaults(content, dup) ==
  {"none", "extract"} \cup
  (IF dup.is_duplicate THEN {}
   ELSE {"summary"}
        \cup (IF NumBatches(Chunks(content)) >= 1 THEN {"embed1"} ELSE {})
        \cup (IF NumBatches(Chunks(content)) >= 2 THEN {"embed2"} ELSE {}))

(***************************************************************************)
(* handle_user_choice                                                      *)
(***************************************************************************)
\* the action strings callers send
ActionInputs ==
  {"replace", "new_version", "keep_both", "Keep_Both", "cancel", "CANCEL",
   "skip"}

\* action.lower()
LowerAction(action) ==
  CASE action = "Keep_Both" -> "keep_both"
    [] action = "CANCEL" -> "cancel"
    [] OTHER -> action

\* an unknown action is handled as keep_both
BranchUnknownKeepsBoth(action) ==
  IF LowerAction(action) \in {"replace", "new_version", "keep_both", "cancel"}
  THEN LowerAction(action) ELSE "keep_both"

\* the branch of the if/elif/else chain that handles the action
Branch(action) ==
  IF LowerAction(action) \in {"replace", "new_version", "keep_both"}
  THEN LowerAction(action) ELSE "cancel"

\* DELETE FROM vector_embeddings WHERE document_id = :id
DeleteEmbeddings(embs, id) ==
  SelectSeq(embs, LAMBDA r : r.document_id # id)

\* UPDATE documents SET status = :status WHERE id = :id
SetStatus(docs, id, status) ==
  [i \in 1..Len(docs) |->
     IF docs[i].id = id THEN [docs[i] EXCEPT !.status = status] ELSE docs[i]]

\* UPDATE documents SET version = :v, parent_document_id = :parent WHERE id = :id
SetVersion(docs, id, v, parent) ==
  [i \in 1..Len(docs) |->
     IF docs[i].id = id
     THEN [docs[i] EXCEPT !.version = v, !.parent_document_id = parent]
     ELSE docs[i]]

\* SELECT filename, version, content_hash FROM documents WHERE id = :id
DocRows(docs, id) == {i \in 1..Len(docs) : docs[i].id = id}

\* old_doc[1] or 1
OldVersionNum(version) == IF version = 0 THEN 1 ELSE version

\* the new document keeps the prior version number
SameVersionNumber(old_version_num) == old_version_num

\* new_version_number = old_version_num + 1
NewVersionNumber(old_version_num) == old_version_num + 1

\* the version row records the number of the new version
VersionRecordNewNumber(id, existing_doc_id, old_doc, user_id) ==
  [id |-> id, original_document_id |-> existing_doc_id,
   version_number |-> NewVersionNumber(OldVersionNum(old_doc.version)),
   filename |-> old_doc.filename, content_hash |-> old_doc.content_hash,
   created_by |-> user_id]

\* INSERT INTO document_versions: the prior document's version, filename
\* and content hash
VersionRecord(id, existing_doc_id, old_doc, user_id) ==
  [id |-> id, original_document_id |-> existing_doc_id,
   version_number |-> OldVersionNum(old_doc.version),
   filename |-> old_doc.filename, content_hash |-> old_doc.content_hash,
   created_by |-> user_id]

(***************************************************************************)
(* The calls, one at a time (no call overlaps another).  last records the  *)
(* outcome of the most recent call: what it returned, or that it raised,   *)
(* and the external services it called.                                    *)
(***************************************************************************)
NoCall ==
  [op |-> "none", action |-> "none", content |-> 0, filename |-> "",
   user_id |-> "", existing_doc_id |-> 0, status |-> "none",
   document_id |-> 0, existing |-> 0, options |-> <<>>, chunk_count |-> 0,
   duplicate_type |-> "none", suggested_action |-> "none", version |-> 0,
   calls |-> {}]

\* the record of a call that ran upload_document with outcome up; action is
\* the lower-cased action of a handle_user_choice call
CallRecord(op, action, content, filename, user_id, existing_doc_id, up) ==
  [op |-> op, action |-> action, content |-> content, filename |-> filename,
   user_id |-> user_id, existing_doc_id |-> existing_doc_id,
   status |-> up.status, document_id |-> up.document_id,
   existing |-> up.existing, options |-> up.options,
   chunk_count |-> up.chunk_count, duplicate_type |-> up.duplicate_type,
   suggested_action |-> up.suggested_action, version |-> 0,
   calls |-> up.calls]

\* the upload_document calls that can be in flight at the same time
MaxProcs == 2

Procs == 1..MaxProcs

\* the local state of an upload_document call: where it is suspended (pc),
\* its arguments, its doc_id, the start i of the batch being embedded, the
\* number of the embedding attempt in flight, the delays slept since the
\* batch began, the number of requests sent to the completion service for
\* the summary, and how the call ended (status, cause of the exception)
IdleProc ==
  [pc |-> "idle", content |-> 0, filename |-> "", user_id |-> "",
   doc_id |-> 0, i |-> 0, attempt |-> 0, slept |-> <<>>, summary_attempts |-> 0,
   status |-> "none", cause |-> "none"]

\* no query_documents call made yet.  A record of a call holds its
\* arguments (document_id 0 and section "" stand for None), how it ended
\* (status "returned" or "raised"), the rows fetched, as pairs of a position
\* in vector_embeddings and the position of the joined documents row, the
\* context and the sources built from them, where the answer came from, the
\* keys of the returned dict, the external services awaited, in order, and
\* the number of requests sent to the completion service for the answer; of
\* a call that raised, the record keeps the caller and the services awaited
NoQuery ==
  [status |-> "none", user_id |-> "", document_id |-> 0, section |-> <<>>,
   top_k |-> 0, rows |-> <<>>, context |-> <<>>, answer |-> "none",
   sources |-> <<>>, keys |-> {}, calls |-> <<>>, answer_attempts |-> 0]

Init ==
  /\ documents = <<>>
  /\ document_versions = <<>>
  /\ vector_embeddings = <<>>
  /\ doc_uuid = 0
  /\ uuid_pool = MaxDocs
  /\ ver_uuid = 0
  /\ last = NoCall
  /\ emitted = <<>>
  /\ faults = 0
  /\ chunk_in = [content |-> <<>>, section |-> <<>>, subsection |-> NoneStr]
  /\ chunk_out = <<>>
  /\ procs = [p \in Procs |-> IdleProc]
  /\ seen = <<>>
  /\ query = NoQuery

\* upload_document can run: uuid4() still has an identifier to give
\* (uuid_pool counts the identifiers left) when the run gets as far as
\* drawing one, and an external service fails at
\* most MaxFaults times in a behaviour
UploadGuard(content, dup, fault) ==
  /\ fault \in PossibleFaults(content, dup)
  /\ (fault # "extract" /\ ~dup.is_duplicate) => uuid_pool > 0
  /\ fault # "none" => faults < MaxFaults

\* what every call that ran upload_document leaves in the uuid source and
\* in the record of emitted chunk sequences
AfterUpload(content, up) ==
  /\ faults' = IF up.status = "raised" THEN faults + 1 ELSE faults
  /\ doc_uuid' = IF up.allocated THEN doc_uuid + 1 ELSE doc_uuid
  /\ uuid_pool' = IF up.allocated THEN uuid_pool - 1 ELSE uuid_pool
  /\ emitted' = IF up.allocated THEN Append(emitted, Chunks(content))
                ELSE emitted

AllFaults == {"none", "extract", "summary", "embed1", "embed2"}

\* upload_document(file_content, filename, user_id, db)
Upload(content, filename, user_id) ==
  \E fault \in AllFaults :
  \E dup \in CheckDuplicateOrVersion(documents, HashOf(content), filename,
                                     user_id) :
  \E up \in {UploadDocument([documents |-> documents,
                               vector_embeddings |-> vector_embeddings],
                              content, filename, user_id, dup, doc_uuid + 1,
                              fault)} :
       /\ UploadGuard(content, dup, fault)
       /\ documents' = up.documents
       /\ vector_embeddings' = up.vector_embeddings
       /\ AfterUpload(content, up)
       /\ last' = CallRecord("upload_document", "none", content, filename,
                             user_id, 0, up)
       /\ UNCHANGED <<document_versions, ver_uuid, chunk_in, chunk_out,
                 procs, seen, query>>

\* handle_user_choice, action == "replace"
Replace(action, content, filename, existing_doc_id, user_id) ==
  /\ Branch(action) = "replace"
  /\ \E db \in {[documents |->
                     SetStatus(documents, existing_doc_id, "replaced"),
                   vector_embeddings |->
                     DeleteEmbeddings(vector_embeddings, existing_doc_id)]} :
        \E fault \in AllFaults :
        \E dup \in CheckDuplicateOrVersion(db.documents, HashOf(content),
                                           filename, user_id) :
        \E up \in {UploadDocument(db, content, filename, user_id, dup,
                                  doc_uuid + 1, fault)} :
             /\ UploadGuard(content, dup, fault)
             /\ documents' = up.documents
             /\ vector_embeddings' = up.vector_embeddings
             /\ AfterUpload(content, up)
             /\ last' = CallRecord("handle_user_choice", LowerAction(action),
                                   content, filename, user_id,
                                   existing_doc_id, up)
             /\ UNCHANGED <<document_versions, ver_uuid, chunk_in, chunk_out,
                 procs, seen, query>>

\* handle_user_choice, action == "new_version", when the SELECT finds no row
NewVersionNotFound(action, existing_doc_id) ==
  /\ Branch(action) = "new_version"
  /\ DocRows(documents, existing_doc_id) = {}
  /\ last' = [NoCall EXCEPT !.op = "handle_user_choice",
                            !.action = LowerAction(action),
                            !.status = "raised",
                            !.existing_doc_id = existing_doc_id]
  /\ UNCHANGED <<documents, document_versions, vector_embeddings, doc_uuid,
                 uuid_pool, ver_uuid, emitted, faults, chunk_in, chunk_out,
                 procs, seen, query>>

\* handle_user_choice, action == "new_version", when the prior row exists
NewVersion(action, content, filename, existing_doc_id, user_id) ==
  /\ Branch(action) = "new_version"
  /\ ver_uuid < MaxVersions
  /\ \E i \in DocRows(documents, existing_doc_id) :
       LET old_doc == documents[i]
           new_version_number == NewVersionNumber(OldVersionNum(old_doc.version))
           db == [documents |-> SetStatus(documents, existing_doc_id, "archived"),
                  vector_embeddings |-> vector_embeddings]
       IN \E fault \in AllFaults :
          \E dup \in CheckDuplicateOrVersion(db.documents, HashOf(content),
                                             filename, user_id) :
          \E up \in {UploadDocument(db, content, filename, user_id, dup,
                                    doc_uuid + 1, fault)} :
            LET rec == CallRecord("handle_user_choice", LowerAction(action),
                                  content, filename, user_id,
                                  existing_doc_id, up)
            IN /\ UploadGuard(content, dup, fault)
               /\ document_versions' = Append(document_versions,
                    VersionRecord(ver_uuid + 1, existing_doc_id, old_doc, user_id))
               /\ ver_uuid' = ver_uuid + 1
               /\ vector_embeddings' = up.vector_embeddings
               /\ AfterUpload(content, up)
               /\ IF up.status = "success"
                  THEN /\ documents' = SetVersion(up.documents, up.document_id,
                                         new_version_number, existing_doc_id)
                       /\ last' = [rec EXCEPT !.version = new_version_number]
                  ELSE \* result["document_id"] raises KeyError on a
                       \* duplicate report; an exception of the upload
                       \* propagates
                       /\ documents' = up.documents
                       /\ last' = [rec EXCEPT !.status = "raised"]
               /\ UNCHANGED <<chunk_in, chunk_out,
                 procs, seen, query>>

\* handle_user_choice, action == "keep_both" (existing_doc_id is not read)
KeepBoth(action, content, filename, user_id) ==
  /\ Branch(action) = "keep_both"
  /\ \E fault \in AllFaults :
     \E dup \in CheckDuplicateOrVersion(documents, HashOf(content), filename,
                                        user_id) :
     \E up \in {UploadDocument([documents |-> documents,
                                 vector_embeddings |-> vector_embeddings],
                                content, filename, user_id, dup,
                                doc_uuid + 1, fault)} :
          /\ UploadGuard(content, dup, fault)
          /\ documents' = up.documents
          /\ vector_embeddings' = up.vector_embeddings
          /\ AfterUpload(content, up)
          /\ last' = CallRecord("handle_user_choice", LowerAction(action),
                                content, filename, user_id, 0, up)
          /\ UNCHANGED <<document_versions, ver_uuid, chunk_in, chunk_out,
                 procs, seen, query>>

\* handle_user_choice, else branch: cancel or unknown (no other argument
\* is read)
Cancel(action) ==
  /\ Branch(action) = "cancel"
  /\ last' = [NoCall EXCEPT !.op = "handle_user_choice",
                            !.action = LowerAction(action),
                            !.status = "cancelled"]
  /\ UNCHANGED <<documents, document_versions, vector_embeddings, doc_uuid,
                 uuid_pool, ver_uuid, emitted, faults, chunk_in, chunk_out,
                 procs, seen, query>>

\* the document ids a caller can name: the ids drawn so far, and 0 for an
\* id that names no document
KnownIds == 0..doc_uuid

Next ==
  \/ \E r \in Requests : Upload(r[1], r[2], r[3])
  \/ \E a \in ActionInputs, r \in Requests, e \in KnownIds :
        Replace(a, r[1], r[2], e, r[3])
  \/ \E a \in ActionInputs, e \in KnownIds : NewVersionNotFound(a, e)
  \/ \E a \in ActionInputs, r \in Requests, e \in KnownIds :
        NewVersion(a, r[1], r[2], e, r[3])
  \/ \E a \in ActionInputs, r \in Requests : KeepBoth(a, r[1], r[2], r[3])
  \/ \E a \in ActionInputs : Cancel(a)

Spec == Init /\ [][Next]_vars

(***************************************************************************)
(* upload_document step by step: a call runs from one await to the next    *)
(* without interruption, and calls in flight interleave at their awaits    *)
(* (the extraction call, every embedding attempt and the sleep after a     *)
(* failed one, the summary call).  A commit makes its rows visible to the  *)
(* other calls.                                                            *)
(***************************************************************************)
MaxRetries == 3

BackoffFactor == 1

\* the loop tries once more after the last permitted attempt
RetryOnceMore(attempt) == attempt <= MaxRetries

\* if attempt < self._max_retries: sleep and try again, else raise
RetryAgain(attempt) == attempt < MaxRetries

\* await asyncio.sleep(self._backoff_factor * attempt)
Backoff(attempt) == BackoffFactor * attempt

PipelineRequests == {<<1, "a.pdf", "u1">>, <<3, "b.pdf", "u1">>}

Raised(proc, cause) == [proc EXCEPT !.pc = "done", !.status = "raised",
                                    !.cause = cause]

PipelineFrame ==
  UNCHANGED <<document_versions, ver_uuid, last, faults, chunk_in, chunk_out,
              query>>

\* upload_document is called and awaits the extraction service
BeginUpload(p, content, filename, user_id) ==
  /\ procs[p].pc \in {"idle", "done"}
  /\ procs' = [procs EXCEPT ![p] =
       [IdleProc EXCEPT !.pc = "extracting", !.content = content,
                        !.filename = filename, !.user_id = user_id]]
  /\ UNCHANGED <<documents, vector_embeddings, doc_uuid, uuid_pool, emitted,
                 seen>>
  /\ PipelineFrame

\* the extraction call raises
ExtractionFails(p) ==
  /\ procs[p].pc = "extracting"
  /\ procs' = [procs EXCEPT ![p] = Raised(@, "extraction")]
  /\ UNCHANGED <<documents, vector_embeddings, doc_uuid, uuid_pool, emitted,
                 seen>>
  /\ PipelineFrame

\* the extraction call returns: hash, duplicate check, hierarchy, chunks,
\* doc_id, and the first embedding attempt of the first batch is sent.
\* seen records how many documents rows the duplicate check could see.
ExtractionReturns(p) ==
  /\ procs[p].pc = "extracting"
  /\ \E dup \in CheckDuplicateOrVersion(documents, HashOf(procs[p].content),
                                        procs[p].filename, procs[p].user_id) :
       IF dup.is_duplicate
       THEN /\ procs' = [procs EXCEPT ![p].pc = "done",
                                      ![p].status = "duplicate"]
            /\ UNCHANGED <<doc_uuid, uuid_pool, emitted, seen>>
       ELSE /\ uuid_pool > 0
            /\ doc_uuid' = doc_uuid + 1
            /\ uuid_pool' = uuid_pool - 1
            /\ emitted' = Append(emitted, Chunks(procs[p].content))
            /\ seen' = Append(seen, Len(documents))
            /\ procs' = [procs EXCEPT
                 ![p].doc_id = doc_uuid + 1,
                 ![p].pc = IF Chunks(procs[p].content) = <<>>
                           THEN "summary" ELSE "embedding",
                 ![p].attempt = IF Chunks(procs[p].content) = <<>>
                                THEN 0 ELSE 1]
  /\ UNCHANGED <<documents, vector_embeddings>>
  /\ PipelineFrame

\* the embedding attempt in flight fails
EmbedAttemptFails(p) ==
  /\ procs[p].pc = "embedding"
  /\ procs' = [procs EXCEPT ![p] =
       IF RetryAgain(@.attempt)
       THEN [@ EXCEPT !.slept = Append(@, Backoff(procs[p].attempt)),
                      !.attempt = @ + 1]
       ELSE Raised(@, "embedding")]
  /\ UNCHANGED <<documents, vector_embeddings, doc_uuid, uuid_pool, emitted,
                 seen>>
  /\ PipelineFrame

\* the embedding attempt in flight returns the vectors: the rows of the
\* batch are inserted and committed, and the next batch or the summary call
\* is sent
EmbedAttemptSucceeds(p) ==
  /\ procs[p].pc = "embedding"
  /\ vector_embeddings' = vector_embeddings \o
       BatchRows(Chunks(procs[p].content), procs[p].doc_id, procs[p].i)
  /\ procs' = [procs EXCEPT ![p] =
       IF @.i + BatchSize >= Len(Chunks(@.content))
       THEN [@ EXCEPT !.pc = "summary"]
       ELSE [@ EXCEPT !.i = @ + BatchSize, !.attempt = 1, !.slept = <<>>]]
  /\ UNCHANGED <<documents, doc_uuid, uuid_pool, emitted, seen>>
  /\ PipelineFrame

\* the vectors arrive but db.commit() of the batch raises: the rows of the
\* batch are not stored
BatchCommitFails(p) ==
  /\ procs[p].pc = "embedding"
  /\ procs' = [procs EXCEPT ![p] = Raised(@, "commit")]
  /\ UNCHANGED <<documents, vector_embeddings, doc_uuid, uuid_pool, emitted,
                 seen>>
  /\ PipelineFrame

\* the one request of the summary call fails: the exception propagates
SummaryFails(p) ==
  /\ procs[p].pc = "summary"
  /\ procs' = [procs EXCEPT ![p] =
       Raised([@ EXCEPT !.summary_attempts = 1], "summary")]
  /\ UNCHANGED <<documents, vector_embeddings, doc_uuid, uuid_pool, emitted,
                 seen>>
  /\ PipelineFrame

\* the summary call returns: the documents row is inserted and committed
SummaryReturns(p) ==
  /\ procs[p].pc = "summary"
  /\ documents' = Append(documents,
       NewDocument(procs[p].doc_id, procs[p].content, procs[p].filename,
                   procs[p].user_id, Chunks(procs[p].content)))
  /\ procs' = [procs EXCEPT ![p].pc = "done", ![p].status = "success",
                            ![p].summary_attempts = 1]
  /\ UNCHANGED <<vector_embeddings, doc_uuid, uuid_pool, emitted, seen>>
  /\ PipelineFrame

NextPipeline ==
  \E p \in Procs :
    \/ \E r \in PipelineRequests : BeginUpload(p, r[1], r[2], r[3])
    \/ ExtractionFails(p)
    \/ ExtractionReturns(p)
    \/ EmbedAttemptFails(p)
    \/ EmbedAttemptSucceeds(p)
    \/ BatchCommitFails(p)
    \/ SummaryFails(p)
    \/ SummaryReturns(p)

SpecPipeline == Init /\ [][NextPipeline]_vars

(***************************************************************************)
(* One upload_document call at a time, step by step.  An embedding attempt *)
(* in flight ends, with vectors or with an error (the HTTP client has a    *)
(* timeout), and a sleep ends: the steps of the embedding loop are taken.  *)
(***************************************************************************)
EmbeddingStep(p) ==
  EmbedAttemptFails(p) \/ EmbedAttemptSucceeds(p) \/ BatchCommitFails(p)

NextRetry ==
  \/ \E r \in PipelineRequests : BeginUpload(1, r[1], r[2], r[3])
  \/ ExtractionFails(1)
  \/ ExtractionReturns(1)
  \/ EmbedAttemptFails(1)
  \/ EmbedAttemptSucceeds(1)
  \/ BatchCommitFails(1)
  \/ SummaryFails(1)
  \/ SummaryReturns(1)

SpecRetry == Init /\ [][NextRetry]_vars /\ WF_vars(EmbeddingStep(1))

(***************************************************************************)
(* Querying: query_documents                                               *)
(* The filters of the search are evaluated by the store.  A section title  *)
(* and a section filter are compared character by character, so the text   *)
(* of the titles that occur in the store is spelled out.  The distances    *)
(* depend on the vectors the embedding service returned: any order of the  *)
(* rows that pass the filters can be the order by distance.                *)
(***************************************************************************)
\* the characters of a title, by its label
CharsOf(s) ==
  CASE s = "Login" -> <<"L", "o", "g", "i", "n">>
    [] s = "Billing" -> <<"B", "i", "l", "l", "i", "n", "g">>
    [] s = "Data" -> <<"D", "a", "t", "a">>
    [] s = "S" -> <<"S">>
    [] s = "Introduction" ->
         <<"I", "n", "t", "r", "o", "d", "u", "c", "t", "i", "o", "n">>
    [] OTHER -> <<>>

\* the characters of a stored section_title
RECURSIVE TitleChars(_)
TitleChars(str) ==
  IF str = <<>> THEN <<>> ELSE CharsOf(Head(str).s) \o TitleChars(Tail(str))

\* text LIKE pattern: % matches any run of characters, _ any one character
\* (the section filters sent here hold no backslash)
RECURSIVE LikeMatch(_, _)
LikeMatch(t, p) ==
  IF p = <<>> THEN t = <<>>
  ELSE IF Head(p) = "%"
  THEN LikeMatch(t, Tail(p)) \/ (t # <<>> /\ LikeMatch(Tail(t), p))
  ELSE IF Head(p) = "_"
  THEN t # <<>> /\ LikeMatch(Tail(t), Tail(p))
  ELSE t # <<>> /\ Head(t) = Head(p) /\ LikeMatch(Tail(t), Tail(p))

\* text ILIKE pattern
ILike(t, p) == LikeMatch(Lower(t), Lower(p))

\* f"%{section}%"
SectionPattern(section) == <<"%">> \o section \o <<"%">>

\* v.section_title ILIKE :section
SectionFilter(section_title, section) ==
  ILike(TitleChars(section_title), SectionPattern(section))

\* the rows of vector_embeddings JOIN documents that pass the WHERE clause,
\* as pairs <<position in vector_embeddings, position in documents>>
FilteredRows(docs, embs, user_id, document_id, section) ==
  {r \in (1..Len(embs)) \X (1..Len(docs)) :
     /\ embs[r[1]].document_id = docs[r[2]].id
     /\ docs[r[2]].user_id = user_id
     /\ docs[r[2]].status = "active"
     /\ (document_id # 0 => embs[r[1]].document_id = document_id)
     /\ (section # <<>> => SectionFilter(embs[r[1]].section_title, section))}

\* ORDER BY distance LIMIT k over the set S of joined rows: the first k of
\* some order of S
RECURSIVE Rankings(_, _)
Rankings(S, k) ==
  IF k = 0 \/ S = {} THEN {<<>>}
  ELSE UNION {{<<x>> \o r : r \in Rankings(S \ {x}, k - 1)} : x \in S}

\* the first n characters of a string
RECURSIVE Take(_, _)
Take(str, n) ==
  IF str = <<>> \/ n <= 0 THEN <<>>
  ELSE IF Head(str).n <= n
  THEN <<Head(str)>> \o Take(Tail(str), n - Head(str).n)
  ELSE <<[Head(str) EXCEPT !.n = n]>>

PreviewLen == 300

\* (r[2] or "")[:300] + ("..." if len(r[2]) > 300 else "")
TextPreview(text_content) ==
  Take(text_content, PreviewLen) \o
  (IF StrLen(text_content) > PreviewLen THEN Lit("...", 3) ELSE <<>>)

\* the context fragment of a fetched row
ContextOf(row) ==
  CASE row.chunk_type = "table" ->
         Lit("[FROM TABLE in ", 15) \o row.section_title \o Lit("]", 1)
         \o NL \o row.text_content
    [] row.chunk_type = "image" ->
         Lit("[FROM IMAGE in ", 15) \o row.section_title \o Lit("]", 1)
         \o NL \o row.text_content
    [] OTHER -> row.text_content

\* the source entry of a fetched row joined with its documents row
SourceOf(row, doc) ==
  [document_id |-> row.document_id, filename |-> doc.filename,
   section |-> row.section_title, subsection |-> row.subsection_title,
   page |-> row.page_number, type |-> row.chunk_type,
   text_preview |-> TextPreview(row.text_content)]

\* the arguments callers send: owners, document ids (0: None), section
\* filters (<<>>: None), result counts
SectionInputs == {<<>>, <<"L", "O", "G">>, <<"l", "_", "g">>}

TopKs == {1, 2}

\* what can go wrong in a call: no db session is passed, the embedding call
\* raises after its retries, the completion call raises
QueryFaults == {"none", "no_db", "embedding", "completion"}

\* query_documents(question, user_id, document_id, section, top_k, db)
QueryDocuments(user_id, document_id, section, top_k) ==
  \E fault \in QueryFaults :
  \E results \in Rankings(FilteredRows(documents, vector_embeddings, user_id,
                                       document_id, section), top_k) :
    LET call == [NoQuery EXCEPT !.user_id = user_id,
                                !.document_id = document_id,
                                !.section = section, !.top_k = top_k]
        failed == [NoQuery EXCEPT !.user_id = user_id, !.status = "raised"]
        fetched == [k \in 1..Len(results) |-> vector_embeddings[results[k][1]]]
    IN /\ query' =
            IF fault = "no_db"
            THEN failed
            ELSE IF fault = "embedding"
            THEN [failed EXCEPT !.calls = <<"embedding">>]
            ELSE IF fault = "completion"
            THEN [failed EXCEPT !.calls = <<"embedding", "completion">>,
                                !.answer_attempts = 1]
            ELSE [call EXCEPT
                    !.status = "returned", !.rows = results,
                    !.context = [k \in 1..Len(results) |-> ContextOf(fetched[k])],
                    !.answer = "completion",
                    !.sources = [k \in 1..Len(results) |->
                                   SourceOf(fetched[k], documents[results[k][2]])],
                    !.keys = {"answer", "sources", "query"},
                    !.calls = <<"embedding", "completion">>,
                    !.answer_attempts = 1]
       /\ UNCHANGED <<documents, document_versions, vector_embeddings,
                      doc_uuid, uuid_pool, ver_uuid, last, emitted, faults,
                      chunk_in, chunk_out, procs, seen>>

\* the uploads that build the store queried here.  query_documents leaves
\* the store as it is, so a second call meets the stores the first one can
\* meet: one call is followed in a behaviour
QueryRequests == {<<4, "b.pdf", "u1">>, <<1, "a.pdf", "u2">>}

NextQuery ==
  \/ \E r \in QueryRequests : Upload(r[1], r[2], r[3])
  \/ \E r \in QueryRequests, e \in KnownIds :
        Replace("replace", r[1], r[2], e, r[3])
  \/ \E r \in QueryRequests, e \in KnownIds :
        NewVersion("new_version", r[1], r[2], e, r[3])
  \/ /\ query = NoQuery
     /\ \E u \in Users, d \in KnownIds, s \in SectionInputs, k \in TopKs :
           QueryDocuments(u, d, s, k)

SpecQuery == Init /\ [][NextQuery]_vars

(***************************************************************************)
(* Version lineages: one owner uploads and re-versions or replaces without *)
(* service faults, with identifiers enough for a chain of two re-versions  *)
(***************************************************************************)
MaxChain == 3

LineageRequests == {<<1, "a.pdf", "u1">>, <<3, "b.pdf", "u1">>}

LineageActions == {"new_version", "replace"}

InitLineage ==
  /\ documents = <<>>
  /\ document_versions = <<>>
  /\ vector_embeddings = <<>>
  /\ doc_uuid = 0
  /\ uuid_pool = MaxChain
  /\ ver_uuid = 0
  /\ last = NoCall
  /\ emitted = <<>>
  /\ faults = MaxFaults
  /\ chunk_in = [content |-> <<>>, section |-> <<>>, subsection |-> NoneStr]
  /\ chunk_out = <<>>
  /\ procs = [p \in Procs |-> IdleProc]
  /\ seen = <<>>
  /\ query = NoQuery

NextLineage ==
  \/ \E r \in LineageRequests : Upload(r[1], r[2], r[3])
  \/ \E a \in LineageActions, r \in LineageRequests, e \in KnownIds :
        Replace(a, r[1], r[2], e, r[3])
  \/ \E a \in LineageActions, e \in KnownIds : NewVersionNotFound(a, e)
  \/ \E a \in LineageActions, r \in LineageRequests, e \in KnownIds :
        NewVersion(a, r[1], r[2], e, r[3])

SpecLineage == InitLineage /\ [][NextLineage]_vars

(***************************************************************************)
(* _create_chunk on its own: the content groups it is applied to           *)
(***************************************************************************)
MaxItems == 3

ItemTypes == {"text", "table", "image"}

\* item text lengths around the size budget and half of it
ItemLens == {10, 3997, 4000, 9000}

SubsectionInputs == {NoneStr, <<>>, <<Seg("title", "T", 1)>>}

\* the content list whose k-th item has type f[k][1] and a text of f[k][2]
\* characters
ContentOf(f) ==
  [k \in DOMAIN f |->
     [type |-> f[k][1], text |-> <<Seg("item", ToString(k), f[k][2])>>,
      page |-> NoPage]]

ChunkInputs ==
  {[content |-> ContentOf(f), section |-> <<Seg("title", "S", 1)>>,
    subsection |-> sub] :
     f \in UNION {[1..n -> ItemTypes \X ItemLens] : n \in 0..MaxItems},
     sub \in SubsectionInputs}

InitChunk ==
  /\ documents = <<>>
  /\ document_versions = <<>>
  /\ vector_embeddings = <<>>
  /\ doc_uuid = 0
  /\ uuid_pool = MaxDocs
  /\ ver_uuid = 0
  /\ last = NoCall
  /\ emitted = <<>>
  /\ faults = 0
  /\ chunk_in \in ChunkInputs
  /\ chunk_out = <<>>
  /\ procs = [p \in Procs |-> IdleProc]
  /\ seen = <<>>
  /\ query = NoQuery

\* chunk = self._create_chunk(content, section, subsection, page)
CreateChunkCall ==
  /\ chunk_out = <<>>
  /\ chunk_out' = CreateChunk(chunk_in.content, chunk_in.section,
                              chunk_in.subsection, NoPage)
  /\ chunk_out' # <<>>
  /\ UNCHANGED <<documents, document_versions, vector_embeddings, doc_uuid,
                 uuid_pool, ver_uuid, last, emitted, faults, chunk_in,
                 procs, seen, query>>

NextChunk == CreateChunkCall

SpecChunk == InitChunk /\ [][NextChunk]_vars

(***************************************************************************)
(* _build_document_hierarchy and _chunk_by_function on their own: the      *)
(* element lists they are applied to.  chunk_in holds the hierarchy built  *)
(* from the elements, chunk_out the chunk list once the chunker returned.  *)
(***************************************************************************)
MaxElements == 6

\* the kinds of element at a position: a level-1 title "S", a level-2
\* title "T", a short text, a text of more than half the size budget
ElementKinds == {"S", "T", "x", "X"}

\* the element of kind kind at position k; the text of a content element
\* is labelled with its position
ElementAt(kind, k) ==
  CASE kind = "S" -> Title("S", 1, 1, k)
    [] kind = "T" -> Title("T", 1, 2, k)
    [] kind = "x" -> Element("Text", ToString(k), 10, k)
    [] OTHER -> Element("Text", ToString(k), 5000, k)

ElementLists ==
  UNION {{[k \in 1..n |-> ElementAt(f[k], k)] : f \in [1..n -> ElementKinds]} :
           n \in 0..MaxElements}

InitHierarchy ==
  /\ documents = <<>>
  /\ document_versions = <<>>
  /\ vector_embeddings = <<>>
  /\ doc_uuid = 0
  /\ uuid_pool = MaxDocs
  /\ ver_uuid = 0
  /\ last = NoCall
  /\ emitted = <<>>
  /\ faults = 0
  /\ \E elements \in ElementLists :
       chunk_in = [hierarchy |-> BuildDocumentHierarchy(elements)]
  /\ chunk_out = [done |-> FALSE, chunks |-> <<>>]
  /\ procs = [p \in Procs |-> IdleProc]
  /\ seen = <<>>
  /\ query = NoQuery

\* chunks = self._chunk_by_function(hierarchy)
ChunkByFunctionCall ==
  /\ ~chunk_out.done
  /\ chunk_out' = [done |-> TRUE, chunks |-> ChunkByFunction(chunk_in.hierarchy)]
  /\ UNCHANGED <<documents, document_versions, vector_embeddings, doc_uuid,
                 uuid_pool, ver_uuid, last, emitted, faults, chunk_in,
                 procs, seen, query>>

NextHierarchy == ChunkByFunctionCall

SpecHierarchy == InitHierarchy /\ [][NextHierarchy]_vars

(***************************************************************************)
(* _build_document_hierarchy on its own: chunk_in holds the element list,  *)
(* chunk_out the hierarchy once the builder returned                       *)
(***************************************************************************)
InitBuild ==
  /\ documents = <<>>
  /\ document_versions = <<>>
  /\ vector_embeddings = <<>>
  /\ doc_uuid = 0
  /\ uuid_pool = MaxDocs
  /\ ver_uuid = 0
  /\ last = NoCall
  /\ emitted = <<>>
  /\ faults = 0
  /\ \E elements \in ElementLists : chunk_in = [elements |-> elements]
  /\ chunk_out = [done |-> FALSE,
                  hierarchy |-> [sections |-> <<>>, content |-> <<>>]]
  /\ procs = [p \in Procs |-> IdleProc]
  /\ seen = <<>>
  /\ query = NoQuery

\* hierarchy = self._build_document_hierarchy(elements)
BuildDocumentHierarchyCall ==
  /\ ~chunk_out.done
  /\ chunk_out' = [done |-> TRUE,
                   hierarchy |-> BuildDocumentHierarchy(chunk_in.elements)]
  /\ UNCHANGED <<documents, document_versions, vector_embeddings, doc_uuid,
                 uuid_pool, ver_uuid, last, emitted, faults, chunk_in,
                 procs, seen, query>>

NextBuild == BuildDocumentHierarchyCall

SpecBuild == InitBuild /\ [][NextBuild]_vars

(***************************************************************************)
(* _compute_content_hash alone, on two texts over letters in both cases    *)
(* and whitespace of two kinds                                             *)
(***************************************************************************)
MaxTextLen == 3

Alphabet == {"a", "A", "b", " ", "\n"}

Texts == UNION {[1..n -> Alphabet] : n \in 0..MaxTextLen}

InitHash ==
  /\ documents = <<>>
  /\ document_versions = <<>>
  /\ vector_embeddings = <<>>
  /\ doc_uuid = 0
  /\ uuid_pool = MaxDocs
  /\ ver_uuid = 0
  /\ last = NoCall
  /\ emitted = <<>>
  /\ faults = 0
  /\ \E a \in Texts, b \in Texts : chunk_in = [a |-> a, b |-> b]
  /\ chunk_out = [done |-> FALSE, hash_a |-> <<>>, hash_b |-> <<>>]
  /\ procs = [p \in Procs |-> IdleProc]
  /\ seen = <<>>
  /\ query = NoQuery

\* both texts are hashed
ComputeContentHashCall ==
  /\ ~chunk_out.done
  /\ chunk_out' = [done |-> TRUE,
                   hash_a |-> ComputeContentHash(chunk_in.a),
                   hash_b |-> ComputeContentHash(chunk_in.b)]
  /\ UNCHANGED <<documents, document_versions, vector_embeddings, doc_uuid,
                 uuid_pool, ver_uuid, last, emitted, faults, chunk_in, procs,
                 seen, query>>

NextHash == ComputeContentHashCall

SpecHash == InitHash /\ [][NextHash]_vars

(***************************************************************************)
(* Properties                                                              *)
(***************************************************************************)
\* the vector_embeddings rows of document id
RowsOf(id) == SelectSeq(vector_embeddings, LAMBDA r : r.document_id = id)

\* the rows of document row d carry exactly the indices 0..chunk_count-1,
\* once each, and the row of index k holds the (k+1)-th emitted chunk
DenseInEmissionOrder(d) ==
  LET rows == RowsOf(d.id)
  IN /\ Len(rows) = d.chunk_count
     /\ {rows[k].chunk_index : k \in 1..Len(rows)} = 0..(d.chunk_count - 1)
     /\ \A k \in 1..Len(rows) :
          /\ rows[k].chunk_index + 1 \in 1..Len(emitted[d.id])
          /\ rows[k].text_content = emitted[d.id][rows[k].chunk_index + 1].text

\* C1 as stated: for every document row, after any sequence of
\* upload_document and handle_user_choice calls, the chunk_index values of
\* its vector_embeddings rows are exactly 0..chunk_count-1, without gaps or
\* repeats, in the order the chunker emitted the chunks
C1_DenseForEveryDocument ==
  \A i \in 1..Len(documents) : DenseInEmissionOrder(documents[i])

\* C1 amended: every document row either has exactly the indices
\* 0..chunk_count-1 in emission order, or it has been the target of a
\* replace disposition: then it is not active and has no embedding row
C1_DenseUnlessReplaced ==
  \A i \in 1..Len(documents) :
    \/ DenseInEmissionOrder(documents[i])
    \/ /\ documents[i].status # "active"
       /\ RowsOf(documents[i].id) = <<>>

\* a replaced document that has lost its rows next to an active document
\* whose rows span more than one embedding batch
C1_Witness ==
  /\ \E i \in 1..Len(documents) :
       /\ documents[i].status = "replaced"
       /\ documents[i].chunk_count > 0
       /\ RowsOf(documents[i].id) = <<>>
  /\ \E i \in 1..Len(documents) :
       /\ documents[i].status = "active"
       /\ documents[i].chunk_count > BatchSize
       /\ Len(RowsOf(documents[i].id)) = documents[i].chunk_count

\* C2 as stated: a keep_both disposition that returns has ingested the new
\* content as an independent active document, version 1 and no parent,
\* whether or not the matching document is still active
C2_KeepBothIngests ==
  (last.op = "handle_user_choice" /\ last.action = "keep_both"
     /\ last.status # "raised") =>
    /\ last.status = "success"
    /\ \E i \in DocRows(documents, last.document_id) :
         /\ documents[i].status = "active"
         /\ documents[i].version = 1
         /\ documents[i].parent_document_id = 0

\* C3 as stated: a replace disposition that returns, made by the owner of a
\* prior document that matches the new upload by hash or filename, leaves
\* the prior document replaced and without embeddings and has created a
\* new active document for the new content
C3_ReplaceIngests ==
  (/\ last.op = "handle_user_choice" /\ last.action = "replace"
   /\ last.status # "raised"
   /\ \E i \in DocRows(documents, last.existing_doc_id) :
        /\ documents[i].user_id = last.user_id
        /\ \/ documents[i].content_hash = HashOf(last.content)
           \/ documents[i].filename = last.filename) =>
    /\ \A i \in DocRows(documents, last.existing_doc_id) :
         documents[i].status = "replaced"
    /\ RowsOf(last.existing_doc_id) = <<>>
    /\ last.status = "success"
    /\ \E i \in DocRows(documents, last.document_id) :
         /\ documents[i].status = "active"
         /\ documents[i].content_hash = HashOf(last.content)

\* C4: when new_version returns for a prior document p of version v, the
\* new document row has version v + 1, parent p and status active; hence
\* every document with a parent is exactly one version above its parent
C4_NewVersionLineage ==
  /\ (last.op = "handle_user_choice" /\ last.action = "new_version"
        /\ last.status = "success") =>
       \E i \in DocRows(documents, last.document_id) :
       \E p \in DocRows(documents, last.existing_doc_id) :
         /\ documents[i].version = documents[p].version + 1
         /\ documents[i].parent_document_id = last.existing_doc_id
         /\ documents[i].status = "active"
         /\ last.version = documents[i].version
  /\ \A i \in 1..Len(documents) :
       documents[i].parent_document_id # 0 =>
         \E p \in DocRows(documents, documents[i].parent_document_id) :
           documents[i].version = documents[p].version + 1

\* a chain of two new_version steps: versions 1, 2, 3
C4_Witness ==
  /\ last.action = "new_version" /\ last.status = "success"
  /\ \E i, j, k \in 1..Len(documents) :
       /\ documents[i].version = 1 /\ documents[i].parent_document_id = 0
       /\ documents[j].version = 2
       /\ documents[j].parent_document_id = documents[i].id
       /\ documents[k].version = 3
       /\ documents[k].parent_document_id = documents[j].id
       /\ documents[k].id = last.document_id

\* C5: a new_version call on a prior document that exists appends exactly
\* one document_versions row, holding the prior id and the prior version
\* number, filename and content hash, and sets the prior document
\* archived; no step updates or deletes a document_versions row
C5_VersionRowsAppendOnly ==
  [][/\ IsPrefix(document_versions, document_versions')
     /\ IF /\ last'.op = "handle_user_choice"
           /\ last'.action = "new_version"
           /\ DocRows(documents, last'.existing_doc_id) # {}
        THEN \E i \in DocRows(documents, last'.existing_doc_id) :
               /\ Len(document_versions') = Len(document_versions) + 1
               /\ LET row == document_versions'[Len(document_versions')]
                  IN /\ row.original_document_id = last'.existing_doc_id
                     /\ row.version_number = documents[i].version
                     /\ row.filename = documents[i].filename
                     /\ row.content_hash = documents[i].content_hash
               /\ \A j \in DocRows(documents', last'.existing_doc_id) :
                    documents'[j].status = "archived"
        ELSE document_versions' = document_versions]_vars

\* a new_version call has failed in its upload after the version row was
\* recorded and the prior document archived
C5_Witness ==
  /\ last.op = "handle_user_choice" /\ last.action = "new_version"
  /\ last.status = "raised" /\ last.calls # {}
  /\ Len(document_versions) >= 1
  /\ document_versions[Len(document_versions)].original_document_id =
       last.existing_doc_id
  /\ \E i \in DocRows(documents, last.existing_doc_id) :
       documents[i].status = "archived"

\* C6: a handle_user_choice call whose action, compared without regard to
\* case, is cancel or any value other than replace, new_version and
\* keep_both leaves every table unchanged, calls no external service and
\* returns the status cancelled
C6_CancelChangesNothing ==
  [][(/\ last'.op = "handle_user_choice"
      /\ last'.action \notin {"replace", "new_version", "keep_both"}) =>
       /\ documents' = documents
       /\ document_versions' = document_versions
       /\ vector_embeddings' = vector_embeddings
       /\ last'.calls = {}
       /\ last'.status = "cancelled"]_vars

\* an unknown action has been cancelled on a store that holds rows
C6_Witness ==
  /\ last.op = "handle_user_choice" /\ last.action = "skip"
  /\ last.status = "cancelled"
  /\ documents # <<>> /\ vector_embeddings # <<>>

\* C7: on every store and for every hash, filename and owner, the duplicate
\* check reports an exact duplicate exactly when an active document of that
\* owner has the hash; otherwise a filename duplicate with suggested action
\* new_version exactly when an active document of that owner has the
\* filename; otherwise no duplicate.  The document it reports is one of
\* those matches.
C7_DuplicateCheck ==
  \A c \in Contents, f \in Filenames, u \in Users :
    LET h == HashOf(c)
        byHash == {documents[i].id : i \in
                     {j \in 1..Len(documents) :
                        /\ documents[j].status = "active"
                        /\ documents[j].user_id = u
                        /\ documents[j].content_hash = h}}
        byName == {documents[i].id : i \in
                     {j \in 1..Len(documents) :
                        /\ documents[j].status = "active"
                        /\ documents[j].user_id = u
                        /\ documents[j].filename = f}}
        res == CheckDuplicateOrVersion(documents, h, f, u)
    IN /\ res # {}
       /\ \A r \in res :
            /\ r.duplicate_type \in {"exact", "filename", "none"}
            /\ r.is_duplicate <=> r.duplicate_type # "none"
            /\ r.duplicate_type = "exact" <=> byHash # {}
            /\ r.duplicate_type = "filename" <=>
                 (byHash = {} /\ byName # {})
            /\ r.duplicate_type = "exact" => r.existing \in byHash
            /\ r.duplicate_type = "filename" =>
                 (r.existing \in byName /\ r.suggested_action = "new_version")

\* a filename duplicate is reported although a document with the same hash
\* exists, because that document is not active or has another owner
C7_Witness ==
  \E c \in Contents, f \in Filenames, u \in Users :
    /\ \A r \in CheckDuplicateOrVersion(documents, HashOf(c), f, u) :
         r.duplicate_type = "filename"
    /\ \E i \in 1..Len(documents) :
         /\ documents[i].content_hash = HashOf(c)
         /\ documents[i].status # "active" \/ documents[i].user_id # u

\* C8: an upload_document call made while the owner has an active document
\* with the hash of the uploaded content -- as is the case right after a
\* call that ingested content of that hash for the owner -- inserts no
\* documents or vector_embeddings row and, when it returns, reports a
\* duplicate of exact type, that existing document and the four
\* disposition options
C8_SecondUploadIsDuplicate ==
  [][LET matches == {documents[i].id : i \in
                       ExactRows(documents, HashOf(last'.content),
                                 last'.user_id)}
         follows == /\ last.status = "success"
                    /\ last'.user_id = last.user_id
                    /\ HashOf(last'.content) = HashOf(last.content)
     IN (last'.op = "upload_document" /\ (follows \/ matches # {})) =>
          /\ documents' = documents
          /\ vector_embeddings' = vector_embeddings
          /\ last'.status # "raised" =>
               /\ last'.status = "duplicate"
               /\ last'.duplicate_type = "exact"
               /\ last'.existing \in matches
               /\ follows => last'.existing = last.document_id
               /\ last'.options = Options]_vars

\* an upload has been answered with an exact duplicate report
C8_Witness ==
  /\ last.op = "upload_document" /\ last.status = "duplicate"
  /\ last.duplicate_type = "exact"
  /\ \E i \in DocRows(documents, last.existing) :
       /\ documents[i].content_hash = HashOf(last.content)
       /\ documents[i].user_id = last.user_id

\* C9: no owner has two active documents with the same content hash
C9_OneActivePerOwnerAndHash ==
  \A i, j \in 1..Len(documents) :
    (/\ i # j
     /\ documents[i].status = "active" /\ documents[j].status = "active"
     /\ documents[i].user_id = documents[j].user_id) =>
      documents[i].content_hash # documents[j].content_hash

\* the same content has been ingested twice for one owner, the first
\* document having left the active status
C9_Witness ==
  \E i, j \in 1..Len(documents) :
    /\ documents[i].status # "active" /\ documents[j].status = "active"
    /\ documents[i].user_id = documents[j].user_id
    /\ documents[i].content_hash = documents[j].content_hash

\* C10 as stated: no chunk produced by _create_chunk is longer than 8000
\* characters (headers and newline separators counted), except a chunk
\* that holds a single content item that alone exceeds the budget
C10_ChunkWithinBudget ==
  \A k \in 1..Len(chunk_out) :
    LET text == chunk_out[k].text
    IN \/ StrLen(text) <= SizeBudget
       \/ /\ NumItems(text) = 1
          /\ \E i \in 1..Len(text) :
               text[i].k = "item" /\ text[i].n > SizeBudget

\* C11 as stated: a content group whose one-piece serialization is longer
\* than the budget and at most 9/8 of it, and none of whose items is longer
\* than half the budget, is returned by _create_chunk as exactly 2 chunks
\* that both begin with the header line of the section
C11_TwoChunksWhenSlightlyOver ==
  LET one == JoinNL(ChunkParts(chunk_in.content, chunk_in.section,
                               chunk_in.subsection))
  IN (/\ chunk_out # <<>>
      /\ StrLen(one) > SizeBudget
      /\ 8 * StrLen(one) <= 9 * SizeBudget
      /\ \A k \in 1..Len(chunk_in.content) :
           2 * StrLen(chunk_in.content[k].text) <= SizeBudget) =>
       /\ Len(chunk_out) = 2
       /\ \A k \in 1..Len(chunk_out) :
            IsPrefix(SectionLine(chunk_in.section) \o NL, chunk_out[k].text)

\* C12: for a hierarchy with one section S without direct content and one
\* subsection T holding one text item within the budget, the chunker emits
\* exactly one chunk; its text begins with "# S\n## T\n" and its section
\* and subsection fields are S and T
C12_OneChunkForOneSubsection ==
  LET h == chunk_in.hierarchy
  IN (/\ chunk_out.done
      /\ h.content = <<>>
      /\ Len(h.sections) = 1
      /\ h.sections[1].content = <<>>
      /\ Len(h.sections[1].subsections) = 1
      /\ Len(h.sections[1].subsections[1].content) = 1
      /\ h.sections[1].subsections[1].content[1].type = "text"
      /\ StrLen(JoinNL(ChunkParts(h.sections[1].subsections[1].content,
                                  h.sections[1].title,
                                  h.sections[1].subsections[1].title)))
           <= SizeBudget) =>
       LET S == h.sections[1].title
           T == h.sections[1].subsections[1].title
       IN /\ Len(chunk_out.chunks) = 1
          /\ IsPrefix(Lit("# ", 2) \o S \o NL \o Lit("## ", 3) \o T \o NL,
                      chunk_out.chunks[1].text)
          /\ chunk_out.chunks[1].section = S
          /\ chunk_out.chunks[1].subsection = T

\* the chunker has returned for a hierarchy of one section, one subsection
\* and one text item
C12_Witness ==
  /\ chunk_out.done
  /\ chunk_in.hierarchy.content = <<>>
  /\ Len(chunk_in.hierarchy.sections) = 1
  /\ chunk_in.hierarchy.sections[1].content = <<>>
  /\ Len(chunk_in.hierarchy.sections[1].subsections) = 1
  /\ Len(chunk_in.hierarchy.sections[1].subsections[1].content) = 1
  /\ chunk_in.hierarchy.sections[1].subsections[1].content[1].type = "text"
  /\ Len(chunk_out.chunks) = 1

\* the content items of a chunk list in the order they are emitted, each
\* with the section and subsection fields of the chunk that holds it
RECURSIVE EmittedItems(_)
EmittedItems(chunks) ==
  IF chunks = <<>> THEN <<>>
  ELSE LET c == Head(chunks)
           items == SelectSeq(c.text, LAMBDA seg : seg.k = "item")
       IN [k \in 1..Len(items) |->
             [label |-> items[k].s, section |-> c.section,
              subsection |-> c.subsection]]
          \o EmittedItems(Tail(chunks))

\* the content items of a group, each with the titles of the group
GroupItems(content, section, subsection) ==
  [k \in 1..Len(content) |->
     [label |-> content[k].text[1].s, section |-> section,
      subsection |-> subsection]]

RECURSIVE SubsectionsItems(_, _)
SubsectionsItems(subsections, section) ==
  IF subsections = <<>> THEN <<>>
  ELSE GroupItems(Head(subsections).content, section, Head(subsections).title)
       \o SubsectionsItems(Tail(subsections), section)

\* the order C13 states: top-level content under "Introduction", then for
\* each section the items of its subsections followed by its direct items
RECURSIVE SectionsItems(_)
SectionsItems(sections) ==
  IF sections = <<>> THEN <<>>
  ELSE SubsectionsItems(Head(sections).subsections, Head(sections).title)
       \o GroupItems(Head(sections).content, Head(sections).title, NoneStr)
       \o SectionsItems(Tail(sections))

\* C13: the chunk list of every hierarchy holds the Introduction chunks
\* first, in their own order, then for each section in order the chunks of
\* its subsections in order followed by the chunks of its direct content;
\* the sub-chunks of a split group are contiguous and in split order
C13_ChunksInDocumentOrder ==
  chunk_out.done =>
    /\ EmittedItems(chunk_out.chunks) =
         GroupItems(chunk_in.hierarchy.content, IntroductionTitle, NoneStr)
         \o SectionsItems(chunk_in.hierarchy.sections)
    /\ \A k \in 1..Len(chunk_out.chunks) :
         /\ NumItems(chunk_out.chunks[k].text) >= 1
         /\ IsPrefix(SectionLine(chunk_out.chunks[k].section),
                     chunk_out.chunks[k].text)

\* a chunk list with a split Introduction group, a subsection chunk and a
\* chunk of the direct content of the section
C13_Witness ==
  /\ chunk_out.done
  /\ Len(chunk_in.hierarchy.content) = 2
  /\ Len(chunk_out.chunks) = 4
  /\ chunk_out.chunks[1].section = IntroductionTitle
  /\ chunk_out.chunks[2].section = IntroductionTitle
  /\ Truthy(chunk_out.chunks[3].subsection)
  /\ chunk_out.chunks[4].subsection = NoneStr

\* the delays slept before attempt number attempt of a batch: k times the
\* base delay after the failed attempt k
SleptBefore(attempt) == [k \in 1..(attempt - 1) |-> k * BackoffFactor]

\* C14: for each batch the embedding service is called at most 3 times; a
\* failed attempt k < 3 is followed by a sleep of k times the base delay; a
\* success ends the retries of the batch and its vectors are stored; after
\* 3 failed attempts the call raises and no documents row is created; the
\* retry loop of a batch always ends
C14_EmbeddingRetries ==
  /\ [](\A p \in Procs :
          /\ procs[p].pc = "embedding" =>
               /\ procs[p].attempt \in 1..3
               /\ procs[p].slept = SleptBefore(procs[p].attempt)
          /\ (procs[p].status = "raised" /\ procs[p].cause = "embedding") =>
               /\ procs[p].attempt = 3
               /\ procs[p].slept = SleptBefore(3)
               /\ DocRows(documents, procs[p].doc_id) = {})
  /\ [][\A p \in Procs :
          (procs[p].pc = "embedding" /\ procs'[p] # procs[p]) =>
            \/ /\ procs'[p].pc = "embedding" /\ procs'[p].i = procs[p].i
               /\ procs'[p].attempt = procs[p].attempt + 1
               /\ procs[p].attempt < 3
               /\ vector_embeddings' = vector_embeddings
            \/ /\ procs'[p].status = "raised"
               /\ procs[p].attempt = 3 \/ procs'[p].cause = "commit"
               /\ vector_embeddings' = vector_embeddings
            \/ /\ procs'[p].status = "none"
               /\ \/ procs'[p].pc = "summary"
                  \/ /\ procs'[p].pc = "embedding"
                     /\ procs'[p].i = procs[p].i + BatchSize
                     /\ procs'[p].attempt = 1
               /\ Len(vector_embeddings') > Len(vector_embeddings)
               /\ \A k \in (Len(vector_embeddings) + 1)..Len(vector_embeddings') :
                    /\ vector_embeddings'[k].document_id = procs[p].doc_id
                    /\ vector_embeddings'[k].chunk_index \in
                         procs[p].i..(procs[p].i + BatchSize - 1)]_vars
  /\ \A d \in 1..MaxDocs, b \in {0, BatchSize} :
       (procs[1].pc = "embedding" /\ procs[1].doc_id = d /\ procs[1].i = b)
         ~> ~(procs[1].pc = "embedding" /\ procs[1].doc_id = d
              /\ procs[1].i = b)

\* an upload has raised after the third failed attempt of its second batch
C14_Witness ==
  /\ procs[1].status = "raised" /\ procs[1].cause = "embedding"
  /\ procs[1].i = BatchSize /\ procs[1].attempt = 3
  /\ Len(RowsOf(procs[1].doc_id)) = BatchSize


\* C15: when the filtered nearest-neighbor search of query_documents returns
\* zero rows, the call reports a no-relevant-content outcome and the
\* completion service is not called for that query.
C15_NoRowsNoCompletion ==
  (query.status = "returned" /\ query.rows = <<>>) =>
    /\ query.answer = "no_relevant_content"
    /\ \A k \in 1..Len(query.calls) : query.calls[k] # "completion"

\* the documents of an owner that are active
ActiveDocuments(user_id) ==
  {j \in 1..Len(documents) :
     documents[j].user_id = user_id /\ documents[j].status = "active"}

\* C16: a query_documents call (with a db session) made when the caller has
\* zero active documents returns a no-documents status, and no external
\* service (embedding, completion) is invoked during that call.
C16_NoDocumentsNoServices ==
  [][(/\ query' # query
      /\ ActiveDocuments(query'.user_id) = {}
      /\ ~(query'.status = "raised" /\ query'.calls = <<>>))
     => (query'.status = "no_documents" /\ query'.calls = <<>>)]_vars

\* s occurs in t, letter case ignored
ContainsIgnoringCase(t, s) ==
  \E k \in 0..(Len(t) - Len(s)) :
     SubSeq(Lower(t), k + 1, k + Len(s)) = Lower(s)

\* the rows the k-th source of the call recorded in q can come from: the
\* pairs of a vector_embeddings row and its documents row, active, owned by
\* the caller and the document asked for, if one was, that give that source
SourceOrigins(q, k) ==
  {r \in (1..Len(vector_embeddings)) \X (1..Len(documents)) :
     /\ q.sources[k] = SourceOf(vector_embeddings[r[1]], documents[r[2]])
     /\ documents[r[2]].id = vector_embeddings[r[1]].document_id
     /\ documents[r[2]].status = "active"
     /\ documents[r[2]].user_id = q.user_id
     /\ (q.document_id # 0 =>
           vector_embeddings[r[1]].document_id = q.document_id)}

\* C17: every source returned by query_documents for caller u comes from a
\* vector_embeddings row whose owning document is active and owned by u, has
\* the document id asked for when one is supplied, and has a section title
\* that contains the section filter, letter case ignored, when one is
\* supplied.
C17_SourcesOwnedActiveFiltered ==
  [][query' # query =>
       \A k \in 1..Len(query'.sources) :
          \E r \in SourceOrigins(query', k) :
             query'.section # <<>> =>
               ContainsIgnoringCase(
                 TitleChars(vector_embeddings[r[1]].section_title),
                 query'.section)]_vars

\* what holds of the sources: owner, status and document id as in C17, and
\* the section title satisfies the pattern %section%
SourcesPassWhereClause ==
  [][query' # query =>
       \A k \in 1..Len(query'.sources) :
          \E r \in SourceOrigins(query', k) :
             query'.section # <<>> =>
               SectionFilter(vector_embeddings[r[1]].section_title,
                             query'.section)]_vars

\* a call returned sources of an owner who also has an archived document
\* with rows, and another owner has an active document
QueryReturnedSomeRows ==
  /\ query.status = "returned"
  /\ Len(query.sources) = 2
  /\ \E j \in 1..Len(documents) :
        /\ documents[j].status = "archived"
        /\ documents[j].user_id = query.user_id
        /\ RowsOf(documents[j].id) # <<>>


\* the two forms of a letter
CasePairs == {{"a", "A"}, {"b", "B"}, {"c", "C"}}

\* the same character, or the same letter in the other case
SameLetter(c, d) == c = d \/ {c, d} \in CasePairs

\* the characters of a text that are not whitespace, in order
Letters(text) == SelectSeq(text, LAMBDA c : c \notin Whitespace)

\* the position in text of its k-th character that is not whitespace
RECURSIVE PositionOf(_, _, _)
PositionOf(text, k, from) ==
  IF text[from] \notin Whitespace
  THEN IF k = 1 THEN from ELSE PositionOf(text, k - 1, from + 1)
  ELSE PositionOf(text, k, from + 1)

\* the k for which whitespace stands between the k-th and the next
\* character that is not whitespace
Breaks(text) ==
  {k \in 1..(Len(Letters(text)) - 1) :
     PositionOf(text, k + 1, 1) > PositionOf(text, k, 1) + 1}

\* the texts differ only in letter case and in the length or kind of their
\* whitespace runs, leading and trailing whitespace included
SameUpToCaseAndWhitespace(a, b) ==
  /\ Len(Letters(a)) = Len(Letters(b))
  /\ \A k \in 1..Len(Letters(a)) : SameLetter(Letters(a)[k], Letters(b)[k])
  /\ Breaks(a) = Breaks(b)

\* C18: two texts that differ only in letter case and in the length or kind
\* of whitespace runs (leading and trailing whitespace included) have the
\* same _compute_content_hash fingerprint, and texts that differ in more
\* than that give the hash different normalized inputs.
C18_HashIgnoresCaseAndWhitespace ==
  chunk_out.done =>
    (SameUpToCaseAndWhitespace(chunk_in.a, chunk_in.b)
       <=> chunk_out.hash_a = chunk_out.hash_b)

\* two different texts, one with leading and one with trailing whitespace of
\* different kinds and a letter in different cases, have the same fingerprint
C18_Witness ==
  /\ chunk_out.done
  /\ chunk_in.a = <<" ", "A", "b">>
  /\ chunk_in.b = <<"a", "b", "\n">>
  /\ chunk_out.hash_a = chunk_out.hash_b


\* the upload_document calls that have drawn a doc_id and have not
\* returned: in flight, or ended by an exception
Unfinished ==
  {p \in Procs : procs[p].doc_id # 0 /\ procs[p].status # "success"}

\* C19: at every point during an upload, and after an upload that failed
\* (embedding retries exhausted, batch commit failed, summary call failed),
\* a documents row with status active exists for a document id only if all
\* chunks of that document are stored with their embeddings: the row's
\* chunk_count is the number of rows stored, no call that has not returned
\* has a documents row, and the search of query_documents fetches no row of
\* such a call's document.
C19_ActiveOnlyWhenAllChunksStored ==
  /\ \A j \in 1..Len(documents) :
       documents[j].status = "active" =>
         /\ DenseInEmissionOrder(documents[j])
         /\ documents[j].chunk_count = Len(emitted[documents[j].id])
  /\ \A p \in Unfinished :
       /\ DocRows(documents, procs[p].doc_id) = {}
       /\ \A u \in Users, d \in KnownIds :
            \A r \in FilteredRows(documents, vector_embeddings, u, d, <<>>) :
               vector_embeddings[r[1]].document_id # procs[p].doc_id

\* an upload has failed in its second batch and left the rows of its first
\* batch, while another document of the same owner is active
C19_Witness ==
  \E p \in Procs :
    /\ procs[p].status = "raised"
    /\ procs[p].cause \in {"embedding", "commit"}
    /\ Len(RowsOf(procs[p].doc_id)) = BatchSize
    /\ \E j \in 1..Len(documents) :
         /\ documents[j].status = "active"
         /\ documents[j].user_id = procs[p].user_id

\* C20: two upload_document calls for the same owner and the same content
\* that interleave at their awaits can both pass the duplicate check and
\* both insert an active document; two active documents of one owner have
\* the same content hash only in that way: the duplicate check of the one
\* inserted later ran before the row of the other was inserted.
C20_DuplicatesOnlyByRace ==
  \A i, j \in 1..Len(documents) :
    (/\ i < j
     /\ documents[i].status = "active" /\ documents[j].status = "active"
     /\ documents[i].user_id = documents[j].user_id
     /\ documents[i].content_hash = documents[j].content_hash) =>
      seen[documents[j].id] < i

\* two calls have returned success and the store holds their two active
\* documents, of one owner and with one content hash
C20_Witness ==
  \E p, q \in Procs : \E i, j \in 1..Len(documents) :
    /\ p # q /\ i < j
    /\ procs[p].status = "success" /\ procs[q].status = "success"
    /\ documents[i].id = procs[p].doc_id /\ documents[j].id = procs[q].doc_id
    /\ documents[i].status = "active" /\ documents[j].status = "active"
    /\ documents[i].user_id = documents[j].user_id
    /\ documents[i].content_hash = documents[j].content_hash


\* C21: over any sequence of operations, the status of a document changes
\* only from active to replaced or from active to archived, a document that
\* is replaced or archived keeps its status, and vector_embeddings rows are
\* deleted only for a document that is being marked replaced.
C21_StatusOnlyLeavesActive ==
  [][/\ \A i \in 1..Len(documents) :
          documents'[i].status # documents[i].status =>
            /\ documents[i].status = "active"
            /\ documents'[i].status \in {"replaced", "archived"}
     /\ \A id \in KnownIds :
          Len(SelectSeq(vector_embeddings', LAMBDA r : r.document_id = id))
            < Len(RowsOf(id)) =>
              \E i \in 1..Len(documents) :
                 /\ documents[i].id = id
                 /\ documents'[i].status = "replaced"]_vars


\* C22: a failing completion-service call is retried up to the ceiling of
\* the embedding and extraction calls: an upload_document call that ends
\* with the exception of the summary call, and a query_documents call that
\* ends with the exception of the answer call, has sent MaxRetries requests
\* to the completion service.
C22_CompletionCallsRetried ==
  /\ \A p \in Procs :
       (procs[p].status = "raised" /\ procs[p].cause = "summary") =>
         procs[p].summary_attempts = MaxRetries
  /\ (query.status = "raised" /\ query.answer_attempts > 0) =>
       query.answer_attempts = MaxRetries

\* the answer call of a query_documents call that raised was sent
\* MaxRetries times
AnswerCallRetried ==
  (query.status = "raised" /\ query.answer_attempts > 0) =>
    query.answer_attempts = MaxRetries


\* the content items of the group whose text stands in a chunk text, in the
\* order they stand there
ItemsIn(text) ==
  LET segs == SelectSeq(text, LAMBDA g : g.k = "item")
  IN [n \in 1..Len(segs) |->
        CHOOSE k \in 1..Len(chunk_in.content) :
           chunk_in.content[k].text = <<segs[n]>>]

\* table if the items hold a table, else image if they hold an image, else
\* text
TypeOfItems(items) ==
  IF \E n \in 1..Len(items) : chunk_in.content[items[n]].type = "table"
  THEN "table"
  ELSE IF \E n \in 1..Len(items) : chunk_in.content[items[n]].type = "image"
  THEN "image"
  ELSE "text"

\* C23: every emitted chunk, each sub-chunk produced by splitting included,
\* has the type table if its own content holds a table item, else image if
\* its own content holds an image item, else text.
C23_TypeFromOwnContent ==
  \A k \in 1..Len(chunk_out) :
     chunk_out[k].type = TypeOfItems(ItemsIn(chunk_out[k].text))

\* the header block: the section line, then the subsection line when there
\* is a subsection
HeaderBlock ==
  IF Truthy(chunk_in.subsection)
  THEN SectionLine(chunk_in.section) \o NL \o SubsectionLine(chunk_in.subsection)
  ELSE SectionLine(chunk_in.section)

\* the items of all chunks of a list, in order
RECURSIVE AllItems(_)
AllItems(chunks) ==
  IF chunks = <<>> THEN <<>>
  ELSE ItemsIn(Head(chunks).text) \o AllItems(Tail(chunks))

\* _create_chunk took the branch that splits
WasSplit ==
  /\ chunk_out # <<>>
  /\ StrLen(JoinNL(ChunkParts(chunk_in.content, chunk_in.section,
                              chunk_in.subsection))) > SizeBudget

\* C24: when _create_chunk splits a content group, every sub-chunk starts
\* with the same whole header block, and the content pieces of the
\* sub-chunks read in order are the original content items in their
\* original order, each once and each whole.
C24_SplitKeepsHeaderAndItems ==
  WasSplit =>
    /\ \A k \in 1..Len(chunk_out) :
          /\ IsPrefix(HeaderBlock, chunk_out[k].text)
          /\ \A n \in 1..Len(ItemsIn(chunk_out[k].text)) :
               \E i \in 1..(Len(chunk_out[k].text) - Len(
                       ItemPart(chunk_in.content[ItemsIn(chunk_out[k].text)[n]]))
                     + 1) :
                  SubSeq(chunk_out[k].text, i, i + Len(
                       ItemPart(chunk_in.content[ItemsIn(chunk_out[k].text)[n]]))
                     - 1)
                    = ItemPart(chunk_in.content[ItemsIn(chunk_out[k].text)[n]])
    /\ AllItems(chunk_out) = [k \in 1..Len(chunk_in.content) |-> k]

\* a group of a text, a table and an image under a subsection was split into
\* three sub-chunks
C24_Witness ==
  /\ WasSplit
  /\ Len(chunk_out) = 3
  /\ Truthy(chunk_in.subsection)
  /\ Len(chunk_in.content) = 3
  /\ {chunk_in.content[k].type : k \in 1..3} = ItemTypes

\* C30: every chunk emitted by _create_chunk, each sub-chunk produced by
\* splitting included, holds at least one content item after its header
\* block, also when the first content item alone exceeds the budget.
C30_NoHeaderOnlyChunk ==
  \A k \in 1..Len(chunk_out) : NumItems(chunk_out[k].text) >= 1


\* the positions of the level-n titles of an element list
TitlesAt(elements, n) ==
  {k \in 1..Len(elements) :
     elements[k].type = "Title" /\ elements[k].level = n}

\* the section open when position k is read: the number of level-1 titles
\* before k (0: none)
SectionOpenAt(elements, k) ==
  Cardinality({j \in TitlesAt(elements, 1) : j < k})

\* the subsection open when position k is read: the number of level-2
\* titles between the last level-1 title before k and k (0: none, also when
\* no section is open)
SubsectionOpenAt(elements, k) ==
  IF SectionOpenAt(elements, k) = 0 THEN 0
  ELSE Cardinality({j \in TitlesAt(elements, 2) :
         /\ j < k
         /\ \A i \in TitlesAt(elements, 1) : i < k => i < j})

\* the positions in P, in increasing order
Ascending(n, P) == SelectSeq([k \in 1..n |-> k], LAMBDA k : k \in P)

\* the content items read while section s and subsection t were the
\* innermost open container, in input order
ContentReadIn(elements, s, t) ==
  LET at == Ascending(Len(elements),
              {k \in 1..Len(elements) :
                 /\ elements[k].type # "Title"
                 /\ SectionOpenAt(elements, k) = s
                 /\ SubsectionOpenAt(elements, k) = t})
  IN [n \in 1..Len(at) |-> ContentItem(elements[at[n]])]

\* the level-2 titles read while section s was open, in input order
SubsectionTitlesOf(elements, s) ==
  Ascending(Len(elements),
    {k \in TitlesAt(elements, 2) : SectionOpenAt(elements, k) = s})

\* C25: _build_document_hierarchy places each non-Title element once, in
\* input order, in the content list of the innermost container open when
\* it is read (subsection, else section, else top-level content); a level-1
\* title opens a section and closes the open subsection; a level-2 title
\* read when no section is open makes no node and moves no pointer; every
\* subsection stands in the list of the one section open when it was read.
C25_HierarchyPlacement ==
  chunk_out.done =>
    LET elements == chunk_in.elements
        h == chunk_out.hierarchy
        tops == Ascending(Len(elements), TitlesAt(elements, 1))
    IN /\ h.content = ContentReadIn(elements, 0, 0)
       /\ Len(h.sections) = Len(tops)
       /\ \A s \in 1..Len(h.sections) :
            LET subs == SubsectionTitlesOf(elements, s)
            IN /\ h.sections[s].title = elements[tops[s]].text
               /\ h.sections[s].content = ContentReadIn(elements, s, 0)
               /\ Len(h.sections[s].subsections) = Len(subs)
               /\ \A t \in 1..Len(subs) :
                    /\ h.sections[s].subsections[t].title
                         = elements[subs[t]].text
                    /\ h.sections[s].subsections[t].content
                         = ContentReadIn(elements, s, t)

\* a level-2 title was read before any section and the content after it
\* went to the top level; a section with a subsection was followed by
\* another section, and the content after that went to the new section
C25_Witness ==
  /\ chunk_out.done
  /\ Len(chunk_in.elements) = 6
  /\ chunk_in.elements[1].type = "Title" /\ chunk_in.elements[1].level = 2
  /\ Len(chunk_out.hierarchy.content) = 1
  /\ Len(chunk_out.hierarchy.sections) = 2
  /\ Len(chunk_out.hierarchy.sections[1].subsections) = 1
  /\ Len(chunk_out.hierarchy.sections[2].subsections) = 0
  /\ Len(chunk_out.hierarchy.sections[2].content) = 1


\* the number of chunks of document id that are stored once the batches
\* before the one starting at i are committed
StoredBefore(id, i) == IF i <= Len(emitted[id]) THEN i ELSE Len(emitted[id])

\* C26: when uploads run concurrently and interleave at their embedding
\* calls and retry backoffs, the batches of each document are stored in
\* sequence: the rows of a document carry its document_id and hold its
\* chunks in emission order with chunk_index 0, 1, 2, ...; while the
\* embedding request of the batch starting at i is in flight or backing
\* off, exactly the batches before it are committed; and while one upload
\* backs off, the steps of another upload in flight can be taken.
C26_BatchesInSequence ==
  /\ \A id \in 1..doc_uuid :
       LET rows == RowsOf(id)
       IN /\ Len(rows) <= Len(emitted[id])
          /\ \A k \in 1..Len(rows) :
               /\ rows[k].chunk_index = k - 1
               /\ rows[k].text_content = emitted[id][k].text
  /\ \A p \in Procs :
       procs[p].pc = "embedding" =>
         Len(RowsOf(procs[p].doc_id)) = StoredBefore(procs[p].doc_id, procs[p].i)
  /\ \A p \in Procs :
       procs[p].pc = "summary" =>
         Len(RowsOf(procs[p].doc_id)) = Len(emitted[procs[p].doc_id])
  /\ \A p, q \in Procs :
       (/\ p # q
        /\ procs[p].pc = "embedding" /\ procs[p].slept # <<>>
        /\ procs[q].pc = "embedding") =>
          ENABLED EmbedAttemptSucceeds(q)

\* two uploads of different contents have both returned, one of them after
\* a backoff, and the rows of one document stand between rows of the other
C26_Witness ==
  \E p, q \in Procs :
    /\ p # q
    /\ procs[p].status = "success" /\ procs[q].status = "success"
    /\ procs[p].content # procs[q].content
    /\ procs[p].slept # <<>>
    /\ \E a, b, c \in 1..Len(vector_embeddings) :
         /\ a < b /\ b < c
         /\ vector_embeddings[a].document_id = procs[p].doc_id
         /\ vector_embeddings[b].document_id = procs[q].doc_id
         /\ vector_embeddings[c].document_id = procs[p].doc_id


\* the step is a handle_user_choice call with action replace or new_version
DispositionStep ==
  /\ last'.op = "handle_user_choice"
  /\ last'.action \in {"replace", "new_version"}

\* the documents row i and the vector_embeddings rows of its document are
\* after the step as they were before it
DocumentUntouched(i) ==
  /\ documents'[i].status = documents[i].status
  /\ SelectSeq(vector_embeddings',
               LAMBDA r : r.document_id = documents[i].id)
       = RowsOf(documents[i].id)

\* C27: if handle_user_choice with action replace or new_version does not
\* end with a newly created document (the inner upload_document raises or
\* reports a duplicate), the status of the prior document and its
\* vector_embeddings rows are as they were before the call.
C27_DispositionAllOrNothing ==
  [][(DispositionStep /\ last'.status # "success") =>
       \A i \in DocRows(documents, last'.existing_doc_id) :
          DocumentUntouched(i)]_vars

\* C28: handle_user_choice called with user_id u changes the status, and
\* deletes the vector_embeddings rows, only of documents whose owner is u:
\* a document of another owner named in a replace or new_version call is
\* left as it was.
C28_DispositionOnlyOwnDocuments ==
  [][DispositionStep =>
       \A i \in 1..Len(documents) :
          documents[i].user_id # last'.user_id => DocumentUntouched(i)]_vars

\* C29: in every state reached after an upload_document call has returned
\* or raised, every vector_embeddings row has a document_id for which a
\* documents row exists.
C29_NoOrphanEmbeddings ==
  \A k \in 1..Len(vector_embeddings) :
     DocRows(documents, vector_embeddings[k].document_id) # {}

=============================================================================
